---- MODULE Spec2Model ----
(***************************************************************************)
(* A model of vixl's CPUFeatures (src/cpu-features.cc): a set of feature   *)
(* identifiers packed in a uint64_t mask, its set algebra, its forward     *)
(* iterator and its rendering to a stream.                                 *)
(*                                                                         *)
(* A CPUFeatures object is modelled by the value of its features_ field.   *)
(* The mask is an unsigned integer of MaskBits bits; every operation on it *)
(* is computed bit by bit, as the C++ operators |, &, ~ and << compute it. *)
(***************************************************************************)
EXTENDS Integers, Sequences, FiniteSets

(* The width of the mask. uint64_t has 64 bits; the model scales the width *)
(* down so that every mask value can be enumerated. Both build-time checks *)
(* of the source compare kNumberOfFeatures with this width.                *)
MaskBits == 4

(* The longest chain of set operations applied to one object.              *)
MaxOps == 3

VARIABLES
  kNumberOfFeatures, \* the number of features of the build (the enum's size)
  features_,         \* the mask of the object operated on
  other,             \* the mask of the argument object
  initial,           \* features_ when the object was handed over (history)
  prev,              \* features_ before the last operation (history)
  hist,              \* the operations applied to the object so far (history)
  call,              \* the last call with identifier arguments, and its result
  status,            \* "running", or "asserted" after a fatal assertion
  it,                \* the iterator: [cpu_features_, feature_]
  pc,                \* the position of the iterating code
  ret,               \* where operator++ returns to
  from,              \* feature_ when operator++ was last entered (history)
  out,               \* the identifiers a traversal has produced
  os                 \* the text sink: a sequence of strings

vars == <<kNumberOfFeatures, features_, other, initial, prev, hist, call,
          status, it, pc, ret, from, out, os>>

-----------------------------------------------------------------------------
(* uint64_t arithmetic, scaled to MaskBits bits.                           *)

Pow2(n) == 2 ^ n

RECURSIVE AndBits(_, _, _)
AndBits(x, y, n) ==
  IF n = 0 THEN 0
  ELSE (IF x % 2 = 1 /\ y % 2 = 1 THEN 1 ELSE 0)
       + 2 * AndBits(x \div 2, y \div 2, n - 1)

RECURSIVE OrBits(_, _, _)
OrBits(x, y, n) ==
  IF n = 0 THEN 0
  ELSE (IF x % 2 = 1 \/ y % 2 = 1 THEN 1 ELSE 0)
       + 2 * OrBits(x \div 2, y \div 2, n - 1)

BitAnd(x, y) == AndBits(x, y, MaskBits)

BitOr(x, y) == OrBits(x, y, MaskBits)

BitNot(x) == (Pow2(MaskBits) - 1) - x

ShiftLeft(x, n) == (x * Pow2(n)) % Pow2(MaskBits)

-----------------------------------------------------------------------------
(* The feature enumeration: identifiers 0 .. kNumberOfFeatures-1, and the  *)
(* sentinel kNone, which the iterator requires to equal kNumberOfFeatures. *)
(* The enumerators are not negative, so neither is any value of the type.  *)

kNone == kNumberOfFeatures

(* The identifiers a caller can pass: the valid ones, the sentinel, and    *)
(* one value past the sentinel standing for every out-of-range value (all  *)
(* of them fail the same assertion before anything else happens).          *)
Feature == 0 .. (kNumberOfFeatures + 1)

(* The masks a program can build: only bits of valid identifiers.          *)
Masks == 0 .. (Pow2(kNumberOfFeatures) - 1)

(* The build-time checks.                                                  *)
MakeFeatureMaskStaticAssert == kNumberOfFeatures <= MaskBits

AllStaticAssert == kNumberOfFeatures < MaskBits

IteratorStaticAssert == kNone = kNumberOfFeatures

Builds == MakeFeatureMaskStaticAssert /\ AllStaticAssert /\ IteratorStaticAssert

-----------------------------------------------------------------------------
(* The set operations taking another set.                                  *)

CombineAsXor(self, o) == BitOr(self, o) - BitAnd(self, o)

Combine(self, o) == BitOr(self, o)

RemoveAsXor(self, o) == BitOr(self, o) - BitAnd(self, o)

RemoveAsAnd(self, o) == BitAnd(self, o)

Remove(self, o) == BitAnd(self, BitNot(o))

With(self, o) == LET f == self IN Combine(f, o)

Without(self, o) == LET f == self IN Remove(f, o)

Has(self, o) == BitAnd(self, o) = o

-----------------------------------------------------------------------------
(* The operations taking up to four identifiers.                           *)

(* VIXL_ASSERT(condition): fatal when the condition is false.              *)
VIXL_ASSERT(condition) == IF condition THEN "passed" ELSE "fatal"

MakeFeatureMaskAssertsNever(feature) == FALSE

(* Whether MakeFeatureMask(feature) ends in the fatal assertion.           *)
MakeFeatureMaskAsserts(feature) ==
  IF feature = kNone THEN FALSE
  ELSE VIXL_ASSERT(feature < kNumberOfFeatures) = "fatal"

MakeFeatureMaskNoSentinel(feature) == ShiftLeft(1, feature)

(* The value MakeFeatureMask(feature) returns, when it returns.            *)
MakeFeatureMask(feature) ==
  IF feature = kNone THEN 0 ELSE ShiftLeft(1, feature)

(* An object part-way through a call: its mask, and whether an assertion   *)
(* has ended the program.                                                  *)
Running(mask) == [asserted |-> FALSE, features_ |-> mask]

(* features_ |= MakeFeatureMask(feature)                                   *)
OrMask(s, feature) ==
  IF s.asserted THEN s
  ELSE IF MakeFeatureMaskAsserts(feature) THEN [s EXCEPT !.asserted = TRUE]
  ELSE [s EXCEPT !.features_ = BitOr(s.features_, MakeFeatureMask(feature))]

(* features_ &= ~MakeFeatureMask(feature)                                  *)
AndNotMask(s, feature) ==
  IF s.asserted THEN s
  ELSE IF MakeFeatureMaskAsserts(feature) THEN [s EXCEPT !.asserted = TRUE]
  ELSE [s EXCEPT !.features_ =
          BitAnd(s.features_, BitNot(MakeFeatureMask(feature)))]

Combine4(self, f0, f1, f2, f3) ==
  OrMask(OrMask(OrMask(OrMask(Running(self), f0), f1), f2), f3)

Remove4(self, f0, f1, f2, f3) ==
  AndNotMask(AndNotMask(AndNotMask(AndNotMask(Running(self), f0), f1), f2), f3)

Constructor(f0, f1, f2, f3) == Combine4(0, f0, f1, f2, f3)

With4(self, f0, f1, f2, f3) == LET f == self IN Combine4(f, f0, f1, f2, f3)

Without4(self, f0, f1, f2, f3) == LET f == self IN Remove4(f, f0, f1, f2, f3)

(* Has(f0..f3): [asserted, ret]. The four masks are computed before the    *)
(* test, so an invalid identifier in any position ends the program.        *)
Has4(self, f0, f1, f2, f3) ==
  IF \E f \in {f0, f1, f2, f3} : MakeFeatureMaskAsserts(f)
  THEN [asserted |-> TRUE]
  ELSE LET mask == BitOr(BitOr(MakeFeatureMask(f0), MakeFeatureMask(f1)),
                         BitOr(MakeFeatureMask(f2), MakeFeatureMask(f3)))
       IN  [asserted |-> FALSE, ret |-> (BitAnd(self, mask) = mask)]

AllWithoutMinusOne == ShiftLeft(1, kNumberOfFeatures)

(* All(): (UINT64_C(1) << kNumberOfFeatures) - 1                           *)
All == (ShiftLeft(1, kNumberOfFeatures) - 1) % Pow2(MaskBits)

RECURSIVE CountSetBits(_)
CountSetBits(value) ==
  IF value = 0 THEN 0 ELSE (value % 2) + CountSetBits(value \div 2)

Count(self) == CountSetBits(self)

-----------------------------------------------------------------------------
(* The iterator and the rendering.                                         *)

(* Has(feature), the other three identifiers defaulted to kNone.           *)
Has1(self, feature) == Has4(self, feature, kNone, kNone, kNone)

RECURSIVE CountTrailingZeros(_)
CountTrailingZeros(value) ==
  IF value % 2 = 1 THEN 0 ELSE 1 + CountTrailingZeros(value \div 2)

(* const_iterator(this, feature)                                           *)
const_iterator(feature) == [cpu_features_ |-> "this", feature_ |-> feature]

IsValid(i) == i.cpu_features_ # "NULL"

beginAtZero(self) ==
  IF self = 0 THEN const_iterator(kNone) ELSE const_iterator(0)

begin(self) ==
  IF self = 0 THEN const_iterator(kNone)
  ELSE const_iterator(CountTrailingZeros(self))

end == const_iterator(kNone)

IteratorEqualsAnyFeature(a, b) == a.cpu_features_ = b.cpu_features_

(* operator==; operator!= is its negation.                                 *)
IteratorEquals(a, b) ==
  (a.cpu_features_ = b.cpu_features_) /\ (a.feature_ = b.feature_)

NextFeatureNoRestart(feature) == feature + 1

(* The candidate operator++ tries after feature.                           *)
NextFeature(feature) == IF feature = kNone THEN 0 ELSE feature + 1

(* The labels of the features, in the order of their identifiers.          *)
NAME == <<"FP", "NEON", "CRC32", "AES", "SHA1", "SHA2", "Pmull1Q", "Atomics">>

(* operator<<(os, feature): the text written for one identifier.           *)
FormatFeature(feature) ==
  IF feature = kNone THEN "none" ELSE NAME[feature + 1]

-----------------------------------------------------------------------------
(* Chains of set operations on one object, with another set as argument.   *)
(* The object and the argument are any two sets a program can build.       *)

NoCall == [op |-> "none"]

NoIterator == [cpu_features_ |-> "NULL", feature_ |-> 0]

Idle ==
  /\ call = NoCall
  /\ status = "running"
  /\ it = NoIterator
  /\ pc = "idle"
  /\ ret = "idle"
  /\ from = 0
  /\ out = <<>>
  /\ os = <<>>

Init ==
  /\ kNumberOfFeatures \in 0 .. MaskBits
  /\ features_ \in (IF Builds THEN Masks ELSE {0})
  /\ other \in (IF Builds THEN Masks ELSE {0})
  /\ initial = features_
  /\ prev = features_
  /\ hist = <<>>
  /\ Idle

Apply(name, result) ==
  /\ Builds
  /\ Len(hist) < MaxOps
  /\ features_' = result
  /\ prev' = features_
  /\ hist' = Append(hist, name)
  /\ UNCHANGED <<kNumberOfFeatures, other, initial, call, status, it, pc, ret,
                 from, out, os>>

(* features_.Combine(other), in place.                                     *)
DoCombine == Apply("Combine", Combine(features_, other))

(* features_.Remove(other), in place.                                      *)
DoRemove == Apply("Remove", Remove(features_, other))

(* x.With(other): the object returned is the one operated on next.         *)
DoWith == Apply("With", With(features_, other))

(* x.Without(other): the object returned is the one operated on next.      *)
DoWithout == Apply("Without", Without(features_, other))

Next == DoCombine \/ DoRemove \/ DoWith \/ DoWithout

Spec == Init /\ [][Next]_vars

(* The last two operations applied, when there are two.                    *)
LastTwo == IF Len(hist) < 2 THEN <<>> ELSE <<hist[Len(hist) - 1], hist[Len(hist)]>>

(* Bit i of a mask.                                                        *)
Bit(x, i) == (x \div Pow2(i)) % 2

(* The identifiers that are members of a set.                              *)
Members(mask) == {f \in 0 .. (MaskBits - 1) : Bit(mask, f) = 1}

-----------------------------------------------------------------------------
(* C1: A.With(B).Has(B) is true; A.With(B).Without(B).Has(B) is true only  *)
(* when A.Has(B) was true; and A.Without(B) holds exactly the members of A *)
(* that are not members of B.                                              *)
C1_WithWithoutHas ==
  /\ (hist = <<"With">> => Has(features_, other))
  /\ (hist = <<"With", "Without">> /\ Has(features_, other)
        => Has(initial, other))
  /\ (hist = <<"Without">>
        => Members(features_) = Members(initial) \ Members(other))

C1_Witness ==
  /\ hist = <<"With", "Without">>
  /\ Members(initial) \cap Members(other) # {}
  /\ Members(other) \ Members(initial) # {}
  /\ ~Has(features_, other)

(* C3: A.With(B).Without(B) equals A.Without(B).                           *)
C3_RoundTrip ==
  hist = <<"With", "Without">> => features_ = Without(initial, other)

C3_Witness ==
  /\ hist = <<"With", "Without">>
  /\ Members(other) \ Members(initial) # {}
  /\ Members(initial) \ Members(other) # {}
  /\ features_ # initial

(* C7: a second With(B) right after a With(B) returns an equal set, and a  *)
(* second Remove(B) right after a Remove(B) leaves the object unchanged.   *)
C7_Idempotence ==
  /\ (LastTwo = <<"With", "With">> => features_ = prev)
  /\ (LastTwo = <<"Remove", "Remove">> => features_ = prev)

C7_Witness ==
  /\ hist = <<"Combine", "Remove", "Remove">>
  /\ other # 0
  /\ features_ # initial

-----------------------------------------------------------------------------
(* One call with identifier arguments, or of All() or Count(), on any set  *)
(* a program can build.                                                    *)

InitMasks ==
  /\ kNumberOfFeatures \in 0 .. MaskBits
  /\ features_ \in (IF Builds THEN Masks ELSE {0})
  /\ other = 0
  /\ initial = features_
  /\ prev = features_
  /\ hist = <<>>
  /\ Idle

CanCall == Builds /\ call = NoCall /\ status = "running"

(* A call that changes or replaces the object: s is [asserted, features_]. *)
Mutate(name, args, s) ==
  /\ features_' = s.features_
  /\ status' = IF s.asserted THEN "asserted" ELSE "running"
  /\ call' = [op |-> name, args |-> args, asserted |-> s.asserted]
  /\ UNCHANGED <<kNumberOfFeatures, other, initial, prev, hist, it, pc, ret,
                 from, out, os>>

(* A call that only returns a value.                                       *)
Query(name, args, asserted, value) ==
  /\ status' = IF asserted THEN "asserted" ELSE "running"
  /\ call' = IF asserted
             THEN [op |-> name, args |-> args, asserted |-> TRUE]
             ELSE [op |-> name, args |-> args, asserted |-> FALSE,
                   ret |-> value]
  /\ UNCHANGED <<kNumberOfFeatures, features_, other, initial, prev, hist, it,
                 pc, ret, from, out, os>>

CallConstructor ==
  /\ CanCall
  /\ \E f0, f1, f2, f3 \in Feature :
      Mutate("CPUFeatures", <<f0, f1, f2, f3>>, Constructor(f0, f1, f2, f3))

CallCombine ==
  /\ CanCall
  /\ \E f0, f1, f2, f3 \in Feature :
      Mutate("Combine", <<f0, f1, f2, f3>>, Combine4(features_, f0, f1, f2, f3))

CallRemove ==
  /\ CanCall
  /\ \E f0, f1, f2, f3 \in Feature :
      Mutate("Remove", <<f0, f1, f2, f3>>, Remove4(features_, f0, f1, f2, f3))

CallWith ==
  /\ CanCall
  /\ \E f0, f1, f2, f3 \in Feature :
      Mutate("With", <<f0, f1, f2, f3>>, With4(features_, f0, f1, f2, f3))

CallWithout ==
  /\ CanCall
  /\ \E f0, f1, f2, f3 \in Feature :
      Mutate("Without", <<f0, f1, f2, f3>>, Without4(features_, f0, f1, f2, f3))

CallHas ==
  /\ CanCall
  /\ \E f0, f1, f2, f3 \in Feature :
      LET r == Has4(features_, f0, f1, f2, f3)
      IN  Query("Has", <<f0, f1, f2, f3>>, r.asserted,
                IF r.asserted THEN FALSE ELSE r.ret)

CallAll == CanCall /\ Mutate("All", <<>>, Running(All))

CallCount == CanCall /\ Query("Count", <<>>, FALSE, Count(features_))

NextMasks ==
  \/ CallConstructor
  \/ CallCombine
  \/ CallRemove
  \/ CallWith
  \/ CallWithout
  \/ CallHas
  \/ CallAll
  \/ CallCount

SpecMasks == InitMasks /\ [][NextMasks]_vars

(* The identifiers among the arguments of the last call, sentinel aside.   *)
ArgSet == {call.args[i] : i \in DOMAIN call.args} \ {kNone}

ValidArgs == ArgSet \subseteq 0 .. (kNumberOfFeatures - 1)

RECURSIVE MaskOf(_)
MaskOf(S) ==
  IF S = {} THEN 0
  ELSE LET f == CHOOSE x \in S : TRUE IN Pow2(f) + MaskOf(S \ {f})

(* The set the object held when the last call started.                     *)
Receiver == IF call.op = "CPUFeatures" THEN {} ELSE Members(initial)

(* C4: Has(f0..f3) answers as Has(S) does for the set S of the arguments   *)
(* that are not the sentinel; with only sentinels it answers true.         *)
C4_HasIdentifiers ==
  call.op = "Has" /\ ValidArgs
    => /\ ~call.asserted
       /\ call.ret = Has(features_, MaskOf(ArgSet))
       /\ (ArgSet = {} => call.ret = TRUE)

C4_Witness ==
  /\ call.op = "Has"
  /\ ~call.asserted
  /\ call.args[1] = kNone
  /\ call.args[3] = kNone
  /\ Cardinality(ArgSet) = 2
  /\ call.ret = TRUE
  /\ features_ # MaskOf(ArgSet)

(* C8: a call with identifier arguments ends in the fatal assertion, with  *)
(* no result, exactly when an argument is neither valid nor the sentinel;  *)
(* otherwise it sets, clears or tests bit f for each argument f that is    *)
(* not the sentinel, and no other bit.                                     *)
C8_BitMapping ==
  call.op \in {"CPUFeatures", "Combine", "Remove", "With", "Without", "Has"}
    => /\ call.asserted <=> ~ValidArgs
       /\ call.asserted => status = "asserted" /\ "ret" \notin DOMAIN call
       /\ ~call.asserted /\ call.op \in {"CPUFeatures", "Combine", "With"}
            => Members(features_) = Receiver \cup ArgSet
       /\ ~call.asserted /\ call.op \in {"Remove", "Without"}
            => Members(features_) = Receiver \ ArgSet
       /\ ~call.asserted /\ call.op = "Has"
            => /\ call.ret = (ArgSet \subseteq Receiver)
               /\ features_ = initial

C8_Witness ==
  /\ call.op = "Combine"
  /\ call.asserted
  /\ status = "asserted"
  /\ call.args[1] \in 0 .. (kNumberOfFeatures - 1)
  /\ call.args[2] = kNone
  /\ call.args[3] = kNumberOfFeatures + 1

(* C5, as claimed: whenever kNumberOfFeatures is at most the width of the  *)
(* mask, All() passes its build-time check.                                *)
C5_AsClaimed == kNumberOfFeatures <= MaskBits => AllStaticAssert

(* C5, amended: the empty set has Count() = 0, and whenever                *)
(* kNumberOfFeatures is less than the width of the mask, All() passes its  *)
(* build-time check and returns the set of every valid identifier, whose   *)
(* Count() is kNumberOfFeatures.                                           *)
C5_AllAndCount ==
  /\ (call.op = "Count" /\ features_ = 0 => call.ret = 0)
  /\ kNumberOfFeatures < MaskBits
       => /\ AllStaticAssert
          /\ call.op = "All"
               => /\ Members(features_) = 0 .. (kNumberOfFeatures - 1)
                  /\ Count(features_) = kNumberOfFeatures

C5_Witness ==
  /\ call.op = "All"
  /\ kNumberOfFeatures = MaskBits - 1
  /\ initial = 0
  /\ Count(features_) = MaskBits - 1

-----------------------------------------------------------------------------
(* An iterator over any set a program can build: begin(), end(), the two   *)
(* operator++, a traversal from begin() to end(), and the rendering of the *)
(* set. operator++ runs one pass of its do-while loop per step.            *)

InitIter ==
  /\ kNumberOfFeatures \in 0 .. MaskBits
  /\ features_ \in (IF Builds THEN Masks ELSE {0})
  /\ other = 0
  /\ initial = features_
  /\ prev = features_
  /\ hist = <<>>
  /\ Idle

AtIdle == Builds /\ status = "running" /\ pc = "idle"

CallBegin ==
  /\ AtIdle
  /\ it' = begin(features_)
  /\ call' = [op |-> "begin"]
  /\ UNCHANGED <<kNumberOfFeatures, features_, other, initial, prev, hist,
                 status, pc, ret, from, out, os>>

CallEnd ==
  /\ AtIdle
  /\ it' = end
  /\ call' = [op |-> "end"]
  /\ UNCHANGED <<kNumberOfFeatures, features_, other, initial, prev, hist,
                 status, pc, ret, from, out, os>>

(* Entering operator++ from the code at position back.                     *)
EnterIncrement(back) ==
  /\ IsValid(it)
  /\ pc' = "++"
  /\ ret' = back
  /\ from' = it.feature_

(* ++it                                                                    *)
CallPreIncrement ==
  /\ AtIdle
  /\ EnterIncrement("idle")
  /\ call' = [op |-> "++"]
  /\ UNCHANGED <<kNumberOfFeatures, features_, other, initial, prev, hist,
                 status, it, out, os>>

(* it++: the identifier before the advance is the result.                  *)
CallPostIncrement ==
  /\ AtIdle
  /\ EnterIncrement("idle")
  /\ call' = [op |-> "++(int)", result |-> it.feature_]
  /\ UNCHANGED <<kNumberOfFeatures, features_, other, initial, prev, hist,
                 status, it, out, os>>

(* One pass of the do-while loop of operator++.                            *)
IncrementLoop ==
  /\ status = "running"
  /\ pc = "++"
  /\ LET feature == NextFeature(it.feature_)
         has == Has1(features_, feature)
     IN  /\ it' = [it EXCEPT !.feature_ = feature]
         /\ IF has.asserted
            THEN /\ status' = "asserted"
                 /\ UNCHANGED <<pc, call>>
            ELSE /\ status' = status
                 /\ IF has.ret
                    THEN /\ pc' = ret
                         /\ call' = IF call.op = "++(int)"
                                    THEN [call EXCEPT !.op = "it++"]
                                    ELSE [op |-> "++it"]
                    ELSE UNCHANGED <<pc, call>>
  /\ UNCHANGED <<kNumberOfFeatures, features_, other, initial, prev, hist,
                 ret, from, out, os>>

(* A traversal: from begin(), while it != end(): take *it, then ++it.      *)
StartTraversal ==
  /\ AtIdle
  /\ it' = begin(features_)
  /\ out' = <<>>
  /\ pc' = "for"
  /\ call' = [op |-> "traversing"]
  /\ UNCHANGED <<kNumberOfFeatures, features_, other, initial, prev, hist,
                 status, ret, from, os>>

TraversalLoop ==
  /\ status = "running"
  /\ pc = "for"
  /\ IF ~IteratorEquals(it, end)
     THEN /\ out' = Append(out, it.feature_)
          /\ EnterIncrement("for")
          /\ UNCHANGED call
     ELSE /\ pc' = "idle"
          /\ call' = [op |-> "traversed"]
          /\ UNCHANGED <<ret, from, out>>
  /\ UNCHANGED <<kNumberOfFeatures, features_, other, initial, prev, hist,
                 status, it, os>>

(* operator<<(os, features): it = features.begin()                         *)
StartRender ==
  /\ AtIdle
  /\ it' = begin(features_)
  /\ os' = <<>>
  /\ pc' = "while"
  /\ call' = [op |-> "rendering"]
  /\ UNCHANGED <<kNumberOfFeatures, features_, other, initial, prev, hist,
                 status, ret, from, out>>

(* while (it != features.end()) { os << *it; ++it; ...                     *)
RenderLoop ==
  /\ status = "running"
  /\ pc = "while"
  /\ IF ~IteratorEquals(it, end)
     THEN /\ os' = Append(os, FormatFeature(it.feature_))
          /\ EnterIncrement("if")
          /\ UNCHANGED call
     ELSE /\ pc' = "idle"
          /\ call' = [op |-> "rendered"]
          /\ UNCHANGED <<ret, from, os>>
  /\ UNCHANGED <<kNumberOfFeatures, features_, other, initial, prev, hist,
                 status, it, out>>

RenderSeparatorAlways ==
  /\ status = "running"
  /\ pc = "if"
  /\ os' = Append(os, ", ")
  /\ pc' = "while"
  /\ UNCHANGED <<kNumberOfFeatures, features_, other, initial, prev, hist,
                 call, status, it, ret, from, out>>

(* ... if (it != features.end()) os << ", "; }                             *)
RenderSeparator ==
  /\ status = "running"
  /\ pc = "if"
  /\ os' = IF ~IteratorEquals(it, end) THEN Append(os, ", ") ELSE os
  /\ pc' = "while"
  /\ UNCHANGED <<kNumberOfFeatures, features_, other, initial, prev, hist,
                 call, status, it, ret, from, out>>

NextIter ==
  \/ CallBegin
  \/ CallEnd
  \/ CallPreIncrement
  \/ CallPostIncrement
  \/ IncrementLoop
  \/ StartTraversal
  \/ TraversalLoop
  \/ StartRender
  \/ RenderLoop
  \/ RenderSeparator

(* Code that has entered operator++ keeps running it.                      *)
SpecIter == InitIter /\ [][NextIter]_vars /\ WF_vars(IncrementLoop)

(* The members of a set in ascending order of identifier.                  *)
RECURSIVE Ascending(_)
Ascending(S) ==
  IF S = {} THEN <<>>
  ELSE LET least == CHOOSE x \in S : \A y \in S : x <= y
       IN  <<least>> \o Ascending(S \ {least})

(* The lowest member above an identifier, or the sentinel.                 *)
LeastAbove(S, feature) ==
  LET above == {x \in S : x > feature}
  IN  IF above = {} THEN kNone ELSE CHOOSE x \in above : \A y \in above : x <= y

(* The lowest member, or the sentinel.                                     *)
Least(S) == IF S = {} THEN kNone ELSE CHOOSE x \in S : \A y \in S : x <= y

(* C2: a traversal from begin() to end() produces the members of the set,  *)
(* each once, in ascending order; as many as Count() says; none for the    *)
(* empty set.                                                              *)
C2_Traversal ==
  call.op = "traversed"
    => /\ out = Ascending(Members(features_))
       /\ Len(out) = Count(features_)
       /\ (features_ = 0 => out = <<>>)

C2_Witness ==
  /\ call.op = "traversed"
  /\ out = <<0, 2>>
  /\ Count(features_) = 2

(* C9: whenever operator++ is not running, the identifier of an iterator   *)
(* made by begin() or end() is a member of the set or the sentinel.        *)
C9_CurrentIsMember ==
  IsValid(it) /\ pc # "++"
    => it.feature_ \in Members(features_) \cup {kNone}

C9_Witness ==
  /\ call.op = "++it"
  /\ pc = "idle"
  /\ from = kNone
  /\ features_ # 0
  /\ it.feature_ \in Members(features_)
  /\ it.feature_ # 0

(* The result of the advance that last returned.                           *)
C10_Result ==
  /\ status = "running"
  /\ call.op \in {"++it", "it++"} /\ pc # "++"
       => /\ from # kNone => it.feature_ = LeastAbove(Members(features_), from)
          /\ from = kNone => it.feature_ = Least(Members(features_))
          /\ from = kNone => it = begin(features_)

(* C10: operator++ always returns, and never asserts; from a member it     *)
(* stops at the lowest member above it, or at the sentinel when there is   *)
(* none; from the sentinel it stops where begin() starts: at the lowest    *)
(* member, or at the sentinel when the set is empty.                       *)
C10_Advance == [](C10_Result) /\ ((pc = "++") ~> (pc # "++"))

C10_Witness ==
  /\ call.op = "++it"
  /\ pc = "idle"
  /\ features_ # 0
  /\ from \in Members(features_)
  /\ it.feature_ = kNone
  /\ from # kNumberOfFeatures - 1

(* The text a set is claimed to render as.                                 *)
Rendering(S) ==
  LET m == Ascending(S)
  IN  [i \in 1 .. (IF m = <<>> THEN 0 ELSE 2 * Len(m) - 1) |->
         IF i % 2 = 1 THEN NAME[m[(i + 1) \div 2] + 1] ELSE ", "]

(* C6: a set renders as the names of its members in iteration order with   *)
(* ", " between consecutive names and nothing after the last; the empty    *)
(* set writes nothing.                                                     *)
C6_Rendering ==
  call.op = "rendered"
    => /\ os = Rendering(Members(features_))
       /\ (features_ = 0 => Len(os) = 0)
       /\ (features_ # 0 => Len(os) = 2 * Count(features_) - 1)

C6_Witness ==
  /\ call.op = "rendered"
  /\ Len(os) = 5
  /\ os[Len(os)] # ", "
  /\ os[2] = ", "

=============================================================================
